---- MODULE Spec2Model ----
(***************************************************************************)
(* Layer normalization orchestration (aten/src/ATen/native/layer_norm.cpp). *)
(*                                                                         *)
(* A tensor is a record: whether it is defined, the storage it lives in    *)
(* (buf), its shape, its stride layout, how its storage was filled, and    *)
(* one representative element value (val).  A call of an entry point is    *)
(* one action; the entry points are operators that thread the allocator    *)
(* state (the next fresh storage id) and a trace of the events they        *)
(* perform, in program order.                                              *)
(***************************************************************************)
EXTENDS Integers, Sequences, FiniteSets, TLC

\* ---------------------------------------------------------------- bounds
MaxRank == 2
MaxDim == 2

\* ------------------------------------------------------------ tensors
\* Storage ids of the caller's arguments; fresh storage starts above them.
ArgBuf ==
  [input |-> 1, weight |-> 2, bias |-> 3, dY |-> 4, mean |-> 5, rstd |-> 6,
   out |-> 7]
ArgBufs == {ArgBuf[k] : k \in DOMAIN ArgBuf}
FirstFresh == Cardinality(ArgBufs) + 1

Undefined ==
  [defined |-> FALSE, buf |-> 0, shape |-> <<>>, layout |-> "contiguous",
   fill |-> "none", val |-> 0]

Tensor(b, s, l, f, v) ==
  [defined |-> TRUE, buf |-> b, shape |-> s, layout |-> l, fill |-> f, val |-> v]

RECURSIVE multiply_integers(_)
multiply_integers(s) ==
  IF s = <<>> THEN 1 ELSE Head(s) * multiply_integers(Tail(s))

numel(t) == multiply_integers(t.shape)

\* Number of dimensions of size other than 1.
RECURSIVE BigDims(_)
BigDims(s) ==
  IF s = <<>> THEN 0
  ELSE (IF Head(s) # 1 THEN 1 ELSE 0) + BigDims(Tail(s))

\* A tensor with reversed (column-major) strides is contiguous only when it
\* has no elements or at most one dimension of size other than 1.
is_contiguous(t) ==
  \/ ~t.defined
  \/ t.layout = "contiguous"
  \/ numel(t) = 0
  \/ BigDims(t.shape) <= 1

\* c10::MaybeOwned<Tensor> expect_contiguous(): borrows a contiguous tensor,
\* otherwise owns a fresh contiguous copy.  h is the next fresh storage id.
expect_contiguous(t, h) ==
  IF is_contiguous(t)
  THEN [t |-> t, h |-> h, ev |-> <<>>]
  ELSE [t |-> Tensor(h, t.shape, "contiguous", "copy", t.val), h |-> h + 1,
        ev |-> <<"contiguous_copy">>]

\* at::borrow_from_optional_tensor: an absent optional is the undefined tensor.
borrow_from_optional_tensor(opt) == opt

\* at::empty(shape, options)
empty(s, h) ==
  [t |-> Tensor(h, s, "contiguous", "uninit", 0), h |-> h + 1, ev |-> <<"empty">>]

\* at::native::empty_like(self, ..., Contiguous): reads self.options(), which
\* raises on the undefined tensor ("tensor does not have a device").
empty_like(self, h) ==
  IF ~self.defined
  THEN [err |-> TRUE, t |-> Undefined, h |-> h, ev |-> <<"raise">>]
  ELSE [err |-> FALSE, t |-> Tensor(h, self.shape, "contiguous", "uninit", 0),
        h |-> h + 1, ev |-> <<"empty_like">>]

\* at::native::zeros_like(self, ..., Contiguous) = empty_like(self).zero_()
zeros_like(self, h) ==
  IF ~self.defined
  THEN [err |-> TRUE, t |-> Undefined, h |-> h, ev |-> <<"raise">>]
  ELSE [err |-> FALSE, t |-> Tensor(h, self.shape, "contiguous", "zeros", 0),
        h |-> h + 1, ev |-> <<"zeros_like">>]

\* Tensor::view(shape) on a contiguous tensor: same storage, new shape.
view(t, s) == [t EXCEPT !.shape = s]

\* ------------------------------------------------- shape validation
IsSuffix(ns, s) ==
  /\ Len(ns) <= Len(s)
  /\ \A i \in 1..Len(ns) : ns[i] = s[Len(s) - Len(ns) + i]

\* _check_layer_norm_inputs (layer_norm.h): fails unless normalized_shape is
\* the trailing suffix of the input shape and a defined weight/bias has
\* exactly that shape; otherwise yields M and N.
_check_layer_norm_inputs(input, normalized_shape, weight, bias) ==
  LET axis == Len(input.shape) - Len(normalized_shape)
      ok == /\ IsSuffix(normalized_shape, input.shape)
            /\ (weight.defined => weight.shape = normalized_shape)
            /\ (bias.defined => bias.shape = normalized_shape)
  IN IF ok
     THEN [ok |-> TRUE,
           M |-> multiply_integers(SubSeq(input.shape, 1, axis)),
           N |-> multiply_integers(SubSeq(input.shape, axis + 1, Len(input.shape)))]
     ELSE [ok |-> FALSE, M |-> 0, N |-> 0]

\* ------------------------------------------------- numeric collaborators
\* The per-group statistics are a deterministic function of the data and eps;
\* the stand-ins below give the group mean and inverse standard deviation
\* that belong to the representative element.
Avg(x) == x - 2
InvStd(x, eps) == eps + 1

\* Forward kernel contract: out = (x - mean) * rstd * scale + bias, with
\* scale 1 and bias 0 when absent; mean and rstd per group.
LayerNormKernel(input, gamma, beta, M, N, eps, out, mean, rstd) ==
  LET mu == Avg(input.val)
      rs == InvStd(input.val, eps)
      scale == IF gamma.defined THEN gamma.val ELSE 1
      shift == IF beta.defined THEN beta.val ELSE 0
  IN [out |-> [out EXCEPT !.fill = "kernel",
                          !.val = (input.val - mu) * rs * scale + shift],
      mean |-> [mean EXCEPT !.fill = "kernel", !.val = mu],
      rstd |-> [rstd EXCEPT !.fill = "kernel", !.val = rs],
      call |-> [M |-> M, N |-> N, eps |-> eps]]

\* The shape a per-group statistic is returned with: the leading dimensions
\* of the input followed by a 1 for every normalized dimension.
stat_shape(input_shape, axis) ==
  [i \in 1..Len(input_shape) |-> IF i <= axis THEN input_shape[i] ELSE 1]

\* --------------------------------------------------------- forward path
layer_norm_impl_out(out, mean, rstd, input, normalized_shape, gamma, beta, eps, M, N) ==
  IF M <= 0
  THEN [out |-> out, mean |-> mean, rstd |-> rstd, trace |-> <<>>, fwd |-> <<>>]
  ELSE LET k == LayerNormKernel(input, gamma, beta, M, N, eps, out, mean, rstd)
           axis == Len(input.shape) - Len(normalized_shape)
           shp == stat_shape(input.shape, axis)
       IN [out |-> k.out, mean |-> view(k.mean, shp), rstd |-> view(k.rstd, shp),
           trace |-> <<"LayerNormKernel", "view", "view">>, fwd |-> <<k.call>>]

layer_init(input, normalized_shape, weight_opt, bias_opt, h0) ==
  LET weight == borrow_from_optional_tensor(weight_opt)
      bias == borrow_from_optional_tensor(bias_opt)
      X == expect_contiguous(input, h0)
      M_N == _check_layer_norm_inputs(input, normalized_shape, weight, bias)
  IN IF ~M_N.ok
     THEN [ok |-> FALSE, X |-> X.t, M |-> 0, N |-> 0, gamma |-> Undefined,
           beta |-> Undefined, mean |-> Undefined, rstd |-> Undefined,
           h |-> X.h, trace |-> X.ev \o <<"raise">>]
     ELSE LET gamma == expect_contiguous(weight, X.h)
              beta == expect_contiguous(bias, gamma.h)
              mean == empty(<<M_N.M>>, beta.h)
              rstd == empty(<<M_N.M>>, mean.h)
          IN [ok |-> TRUE, X |-> X.t, M |-> M_N.M, N |-> M_N.N, gamma |-> gamma.t,
              beta |-> beta.t, mean |-> mean.t, rstd |-> rstd.t, h |-> rstd.h,
              trace |-> X.ev \o <<"check">> \o gamma.ev \o beta.ev \o mean.ev \o rstd.ev]

\* What a call leaves behind: its outcome, the tensors it returns, the
\* events it performed in order, and the collaborator invocations.
Result(status, out, mean, rstd, trace, fwd, bn) ==
  [status |-> status, out |-> out, mean |-> mean, rstd |-> rstd,
   dX |-> Undefined, dgamma |-> Undefined, dbeta |-> Undefined,
   trace |-> trace, fwd |-> fwd, bwd |-> <<>>, bn |-> bn]

\* A variant that normalizes in place, in the (possibly borrowed) input.
_layer_norm_inplace(input, normalized_shape, weight_opt, bias_opt, eps) ==
  LET i == layer_init(input, normalized_shape, weight_opt, bias_opt, FirstFresh)
  IN IF ~i.ok
     THEN Result("InvalidShape", Undefined, Undefined, Undefined, i.trace, <<>>, <<>>)
     ELSE LET r == layer_norm_impl_out(i.X, i.mean, i.rstd, i.X, normalized_shape,
                                       i.gamma, i.beta, eps, i.M, i.N)
          IN Result("ok", r.out, r.mean, r.rstd, i.trace \o r.trace, r.fwd, <<>>)

_layer_norm(input, normalized_shape, weight_opt, bias_opt, eps) ==
  LET i == layer_init(input, normalized_shape, weight_opt, bias_opt, FirstFresh)
  IN IF ~i.ok
     THEN Result("InvalidShape", Undefined, Undefined, Undefined, i.trace, <<>>, <<>>)
     ELSE LET Y == empty_like(i.X, i.h)
              r == layer_norm_impl_out(Y.t, i.mean, i.rstd, i.X, normalized_shape,
                                       i.gamma, i.beta, eps, i.M, i.N)
          IN Result("ok", r.out, r.mean, r.rstd, i.trace \o Y.ev \o r.trace, r.fwd, <<>>)

layer_norm_new_out(input, normalized_shape, weight_opt, bias_opt, eps, out) ==
  LET i == layer_init(input, normalized_shape, weight_opt, bias_opt, FirstFresh)
  IN IF ~i.ok
     THEN Result("InvalidShape", Undefined, Undefined, Undefined, i.trace, <<>>, <<>>)
     ELSE LET r == layer_norm_impl_out(out, i.mean, i.rstd, i.X, normalized_shape,
                                       i.gamma, i.beta, eps, i.M, i.N)
          IN Result("ok", r.out, Undefined, Undefined, i.trace \o r.trace, r.fwd, <<>>)

\* -------------------------------------------------------- backward path
\* Backward kernel contract: fills exactly the buffers that are not absent.
LayerNormBackwardKernel(dY, X, mean, rstd, gamma, M, N, dX, dgamma, dbeta) ==
  LET filled(t) == IF t.defined THEN [t EXCEPT !.fill = "kernel"] ELSE t
  IN [dX |-> filled(dX), dgamma |-> filled(dgamma), dbeta |-> filled(dbeta),
      call |-> [M |-> M, N |-> N, dX |-> dX.defined, dgamma |-> dgamma.defined,
                dbeta |-> dbeta.defined]]

BackwardResult(status, dX, dgamma, dbeta, trace, bwd) ==
  [status |-> status, out |-> Undefined, mean |-> Undefined, rstd |-> Undefined,
   dX |-> dX, dgamma |-> dgamma, dbeta |-> dbeta,
   trace |-> trace, fwd |-> <<>>, bwd |-> bwd, bn |-> <<>>]

\* Lines 184-199 and 200-215: the buffer for a parameter gradient.
param_grad(requested, M, param, h) ==
  IF ~requested
  THEN [err |-> FALSE, t |-> Undefined, h |-> h, ev |-> <<>>]
  ELSE IF M > 0 THEN empty_like(param, h) ELSE zeros_like(param, h)

layer_norm_backward(dY, input, normalized_shape, mean, rstd, weight_opt, bias_opt, grad_input_mask) ==
  LET weight == borrow_from_optional_tensor(weight_opt)
      bias == borrow_from_optional_tensor(bias_opt)
      M_N == _check_layer_norm_inputs(input, normalized_shape, weight, bias)
  IN IF ~M_N.ok
     THEN BackwardResult("InvalidShape", Undefined, Undefined, Undefined, <<"raise">>, <<>>)
     ELSE
     LET M == M_N.M
         N == M_N.N
         X == expect_contiguous(input, FirstFresh)
         gamma == expect_contiguous(weight, X.h)
         beta == expect_contiguous(bias, gamma.h)
         dX == IF grad_input_mask[1]
               THEN empty_like(X.t, beta.h)
               ELSE [err |-> FALSE, t |-> Undefined, h |-> beta.h, ev |-> <<>>]
         dgamma == param_grad(grad_input_mask[2], M, gamma.t, dX.h)
         dbeta == param_grad(grad_input_mask[3], M, beta.t, dgamma.h)
         pre == <<"check">> \o X.ev \o gamma.ev \o beta.ev \o dX.ev \o dgamma.ev
     IN IF dgamma.err
        THEN BackwardResult("UndefinedTensor", Undefined, Undefined, Undefined, pre, <<>>)
        ELSE IF dbeta.err
        THEN BackwardResult("UndefinedTensor", Undefined, Undefined, Undefined,
                            pre \o dbeta.ev, <<>>)
        ELSE IF M > 0
        THEN LET k == LayerNormBackwardKernel(dY, X.t, mean, rstd, gamma.t, M, N,
                                              dX.t, dgamma.t, dbeta.t)
             IN BackwardResult("ok", k.dX, k.dgamma, k.dbeta,
                               pre \o dbeta.ev \o <<"LayerNormBackwardKernel">>, <<k.call>>)
        ELSE BackwardResult("ok", dX.t, dgamma.t, dbeta.t, pre \o dbeta.ev, <<>>)

\* ---------------------------------------------- batch-norm fallback path
\* at::infer_size: the sizes a view request stands for, one entry of which
\* may be -1; a request with an inferred entry on a tensor of no elements whose
\* other entries multiply to 0 is ambiguous and raises.
infer_size(sizes, n) ==
  LET known == [i \in 1..Len(sizes) |-> IF sizes[i] = -1 THEN 1 ELSE sizes[i]]
      newsize == multiply_integers(known)
      infer == \E i \in 1..Len(sizes) : sizes[i] = -1
  IN IF n = newsize \/ (infer /\ newsize > 0 /\ n % newsize = 0)
     THEN IF infer /\ newsize = 0
          THEN [err |-> TRUE, sizes |-> sizes]
          ELSE [err |-> FALSE,
                sizes |-> [i \in 1..Len(sizes) |->
                             IF sizes[i] = -1 THEN n \div newsize ELSE sizes[i]]]
     ELSE [err |-> TRUE, sizes |-> sizes]

RECURSIVE DropOnes(_)
DropOnes(s) ==
  IF s = <<>> THEN <<>>
  ELSE IF Head(s) = 1 THEN DropOnes(Tail(s)) ELSE <<Head(s)>> \o DropOnes(Tail(s))

\* Whether the dimensions n regroup the dimensions o without merging two of them.
RECURSIVE Splits(_, _)
Splits(o, n) ==
  IF o = <<>> THEN n = <<>>
  ELSE \E k \in 1..Len(n) :
         /\ multiply_integers(SubSeq(n, 1, k)) = Head(o)
         /\ Splits(Tail(o), SubSeq(n, k + 1, Len(n)))

\* at::detail::computeStride: a view needs strides that express the new shape;
\* dimensions of a non-contiguous (reversed-stride) tensor cannot be merged.
computeStride(t, sizes) ==
  is_contiguous(t) \/ Splits(DropOnes(t.shape), DropOnes(sizes))

\* Tensor::view(sizes) with size inference.
view_infer(t, sizes) ==
  LET inferred == infer_size(sizes, numel(t))
  IN IF inferred.err \/ ~computeStride(t, inferred.sizes)
     THEN [err |-> TRUE, t |-> Undefined, ev |-> <<"raise">>]
     ELSE [err |-> FALSE, t |-> [t EXCEPT !.shape = inferred.sizes], ev |-> <<"view">>]

\* Batch-normalization collaborator on an input {B, C, L}: training-mode
\* statistics per channel, optional per-channel affine.
native_batch_norm(input, weight, bias, running_mean, running_var, training, momentum, eps, h) ==
  LET mu == Avg(input.val)
      rs == InvStd(input.val, eps)
      scale == IF weight.defined THEN weight.val ELSE 1
      shift == IF bias.defined THEN bias.val ELSE 0
      C == input.shape[2]
  IN [out |-> Tensor(h, input.shape, "contiguous", "batch_norm",
                     (input.val - mu) * rs * scale + shift),
      mean |-> Tensor(h + 1, <<C>>, "contiguous", "batch_norm", mu),
      invstd |-> Tensor(h + 2, <<C>>, "contiguous", "batch_norm", rs),
      h |-> h + 3,
      call |-> [shape |-> input.shape, weight |-> weight.defined,
                bias |-> bias.defined, running_mean |-> running_mean.defined,
                running_var |-> running_var.defined, training |-> training,
                momentum |-> momentum, eps |-> eps]]

\* Broadcasting of two shapes, aligned at the last dimension.
broadcast(a, b) ==
  LET n == IF Len(a) >= Len(b) THEN Len(a) ELSE Len(b)
      at(s, i) == IF i > n - Len(s) THEN s[i - (n - Len(s))] ELSE 1
  IN [i \in 1..n |-> IF at(a, i) = 1 THEN at(b, i) ELSE at(a, i)]

\* self.addcmul(tensor1, tensor2, value) = self + value * tensor1 * tensor2
addcmul(self, tensor1, tensor2, value, h) ==
  Tensor(h, broadcast(self.shape, broadcast(tensor1.shape, tensor2.shape)),
         "contiguous", "addcmul", self.val + value * tensor1.val * tensor2.val)

mul(self, other, h) ==
  Tensor(h, broadcast(self.shape, other.shape), "contiguous", "mul",
         self.val * other.val)

add(self, other, h) ==
  Tensor(h, broadcast(self.shape, other.shape), "contiguous", "add",
         self.val + other.val)

\* A variant with the operands of addcmul exchanged: out + bias * weight.
affine_swapped(out, weight, bias, h) ==
  IF weight.defined /\ bias.defined
  THEN [t |-> addcmul(out, bias, weight, 1, h), ev |-> <<"addcmul">>]
  ELSE IF weight.defined
  THEN [t |-> mul(out, weight, h), ev |-> <<"mul">>]
  ELSE IF bias.defined
  THEN [t |-> add(out, bias, h), ev |-> <<"add">>]
  ELSE [t |-> out, ev |-> <<>>]

\* Lines 279-285: the affine transform of the reshaped batch-norm output.
affine(out, weight, bias, h) ==
  IF weight.defined /\ bias.defined
  THEN [t |-> addcmul(bias, out, weight, 1, h), ev |-> <<"addcmul">>]
  ELSE IF weight.defined
  THEN [t |-> mul(out, weight, h), ev |-> <<"mul">>]
  ELSE IF bias.defined
  THEN [t |-> add(out, bias, h), ev |-> <<"add">>]
  ELSE [t |-> out, ev |-> <<>>]

\* Lines 268-276: the batch-norm invocation.
batch_norm_call(input_reshaped, eps, h) ==
  native_batch_norm(input_reshaped, Undefined, Undefined, Undefined, Undefined,
                    TRUE, 0, eps, h)

math_native_layer_norm(input, normalized_shape, weight_opt, bias_opt, eps) ==
  LET weight == borrow_from_optional_tensor(weight_opt)
      bias == borrow_from_optional_tensor(bias_opt)
      M_N == _check_layer_norm_inputs(input, normalized_shape, weight, bias)
  IN IF ~M_N.ok
     THEN Result("InvalidShape", Undefined, Undefined, Undefined, <<"raise">>, <<>>, <<>>)
     ELSE
     LET M == M_N.M
         X == expect_contiguous(input, FirstFresh)
         gamma == expect_contiguous(weight, X.h)
         input_shape == input.shape
         axis == Len(input.shape) - Len(normalized_shape)
         input_reshaped == view_infer(input, <<1, M, -1>>)
         pre == <<"check">> \o X.ev \o gamma.ev \o input_reshaped.ev
     IN IF input_reshaped.err
        THEN Result("ViewError", Undefined, Undefined, Undefined, pre, <<>>, <<>>)
        ELSE
        LET outputs == batch_norm_call(input_reshaped.t, eps, gamma.h)
            out == affine(view(outputs.out, input_shape), weight, bias, outputs.h)
            shp == stat_shape(input_shape, axis)
        IN Result("ok", out.t, view(outputs.mean, shp), view(outputs.invstd, shp),
                  pre \o <<"native_batch_norm", "view">> \o out.ev \o <<"view", "view">>,
                  <<>>, <<outputs.call>>)

\* ------------------------------------------------------------ the calls
VARIABLES fn, args, res
vars == <<fn, args, res>>

\* Input shapes of rank 1..MaxRank with dimensions 0..MaxDim.
Shapes == UNION {[1..n -> 0..MaxDim] : n \in 1..MaxRank}

\* The caller's input: contiguous, or with reversed strides when that makes
\* it non-contiguous.
Inputs ==
  {t \in {Tensor(ArgBuf.input, s, l, "arg", 5) :
            s \in Shapes, l \in {"contiguous", "reversed"}} :
     t.layout = "reversed" => ~is_contiguous(t)}

\* A shape that differs from ns in its first dimension.
OtherShape(ns) == [ns EXCEPT ![1] = @ + 1]

\* normalized_shape: every trailing suffix of the input shape (valid), every
\* suffix with one dimension changed, and a shape longer than the input's.
NormShapes(s) ==
  LET suffixes == {SubSeq(s, k, Len(s)) : k \in 1..Len(s)}
  IN suffixes \cup {OtherShape(x) : x \in suffixes} \cup {<<1>> \o s}

\* An optional parameter: absent, of shape normalized_shape, or of another shape.
Params(buf, ns, v) ==
  {Undefined, Tensor(buf, ns, "contiguous", "arg", v),
   Tensor(buf, OtherShape(ns), "contiguous", "arg", v)}

EpsValues == {1, 2}
Masks == [1..3 -> BOOLEAN]

NoMask == [i \in 1..3 |-> FALSE]
NoArgs ==
  [input |-> Undefined, normalized_shape |-> <<>>, weight_opt |-> Undefined,
   bias_opt |-> Undefined, eps |-> 0, out |-> Undefined, dY |-> Undefined,
   mean |-> Undefined, rstd |-> Undefined, grad_input_mask |-> NoMask]
NoResult == Result("none", Undefined, Undefined, Undefined, <<>>, <<>>, <<>>)

Init ==
  /\ fn = "idle"
  /\ args = NoArgs
  /\ res = NoResult

Call_layer_norm ==
  /\ fn = "idle"
  /\ \E input \in Inputs : \E ns \in NormShapes(input.shape) :
     \E w \in Params(ArgBuf.weight, ns, 2), b \in Params(ArgBuf.bias, ns, 3) :
     \E eps \in EpsValues :
       /\ fn' = "_layer_norm"
       /\ args' = [NoArgs EXCEPT !.input = input, !.normalized_shape = ns,
                                 !.weight_opt = w, !.bias_opt = b, !.eps = eps]
       /\ res' = _layer_norm(input, ns, w, b, eps)

\* The caller's out has the input's shape: the kernel writes M * N elements.
Call_layer_norm_new_out ==
  /\ fn = "idle"
  /\ \E input \in Inputs : \E ns \in NormShapes(input.shape) :
     \E w \in Params(ArgBuf.weight, ns, 2), b \in Params(ArgBuf.bias, ns, 3) :
     \E eps \in EpsValues :
       LET out == Tensor(ArgBuf.out, input.shape, "contiguous", "arg", 0)
       IN /\ fn' = "layer_norm_new_out"
          /\ args' = [NoArgs EXCEPT !.input = input, !.normalized_shape = ns,
                                    !.weight_opt = w, !.bias_opt = b, !.eps = eps,
                                    !.out = out]
          /\ res' = layer_norm_new_out(input, ns, w, b, eps, out)

\* mean and rstd are the statistics a forward call returned for the same input.
Call_layer_norm_backward ==
  /\ fn = "idle"
  /\ \E input \in Inputs : \E ns \in NormShapes(input.shape) :
     \E w \in Params(ArgBuf.weight, ns, 2), b \in Params(ArgBuf.bias, ns, 3) :
     \E mask \in Masks :
       LET fwd == _layer_norm(input, ns, w, b, 1)
           dY == Tensor(ArgBuf.dY, input.shape, "contiguous", "arg", 1)
           mean == [fwd.mean EXCEPT !.buf = ArgBuf.mean, !.fill = "arg"]
           rstd == [fwd.rstd EXCEPT !.buf = ArgBuf.rstd, !.fill = "arg"]
       IN /\ fn' = "layer_norm_backward"
          /\ args' = [NoArgs EXCEPT !.input = input, !.normalized_shape = ns,
                                    !.weight_opt = w, !.bias_opt = b, !.dY = dY,
                                    !.mean = mean, !.rstd = rstd,
                                    !.grad_input_mask = mask]
          /\ res' = layer_norm_backward(dY, input, ns, mean, rstd, w, b, mask)

Call_math_native_layer_norm ==
  /\ fn = "idle"
  /\ \E input \in Inputs : \E ns \in NormShapes(input.shape) :
     \E w \in Params(ArgBuf.weight, ns, 2), b \in Params(ArgBuf.bias, ns, 3) :
     \E eps \in EpsValues :
       /\ fn' = "math_native_layer_norm"
       /\ args' = [NoArgs EXCEPT !.input = input, !.normalized_shape = ns,
                                 !.weight_opt = w, !.bias_opt = b, !.eps = eps]
       /\ res' = math_native_layer_norm(input, ns, w, b, eps)

\* The call has returned (or raised); the next one starts afresh: nothing
\* is kept between calls.
Return ==
  /\ fn # "idle"
  /\ fn' = "idle"
  /\ args' = NoArgs
  /\ res' = NoResult

Next ==
  \/ Call_layer_norm
  \/ Call_layer_norm_new_out
  \/ Call_layer_norm_backward
  \/ Call_math_native_layer_norm
  \/ Return

Spec == Init /\ [][Next]_vars

\* ------------------------------------------------------------ properties
\* The shape check of the current call's arguments.
Checked ==
  _check_layer_norm_inputs(args.input, args.normalized_shape, args.weight_opt,
                           args.bias_opt)
ValidArgs == Checked.ok
Axis == Len(args.input.shape) - Len(args.normalized_shape)
Mask == args.grad_input_mask

Forward == fn \in {"_layer_norm", "layer_norm_new_out"}
Backward == fn = "layer_norm_backward"
Fallback == fn = "math_native_layer_norm"

AllocEvents ==
  {"contiguous_copy", "empty", "empty_like", "zeros_like", "native_batch_norm",
   "addcmul", "mul", "add"}
Has(trace, e) == \E i \in 1..Len(trace) : trace[i] = e
Returned == {res.out, res.mean, res.rstd, res.dX, res.dgamma, res.dbeta}

\* C1: for every gradient mask and every valid input, layer_norm_backward
\* returns each of dInput, dScale, dBias defined exactly when its flag is set.
C1_MaskFidelity ==
  (Backward /\ ValidArgs) =>
    /\ res.status = "ok"
    /\ res.dX.defined <=> Mask[1]
    /\ res.dgamma.defined <=> Mask[2]
    /\ res.dbeta.defined <=> Mask[3]

\* C2: for every valid input of _layer_norm, M = 0 included, mean and rstd
\* have the input's leading dimensions followed by a 1 per normalized dimension.
C2_StatShape ==
  (fn = "_layer_norm" /\ ValidArgs) =>
    /\ res.status = "ok"
    /\ res.mean.shape = stat_shape(args.input.shape, Axis)
    /\ res.rstd.shape = stat_shape(args.input.shape, Axis)

C4_DegenerateBackward ==
  (Backward /\ ValidArgs) =>
    /\ res.status = "ok"
    /\ Checked.M <= 0 =>
         /\ res.bwd = <<>>
         /\ Mask[2] => (res.dgamma.fill = "zeros" /\ res.dgamma.shape = args.weight_opt.shape)
         /\ Mask[3] => (res.dbeta.fill = "zeros" /\ res.dbeta.shape = args.bias_opt.shape)
         /\ Mask[1] => (res.dX.defined /\ res.dX.shape = args.input.shape
                        /\ numel(res.dX) = 0)
    /\ Checked.M > 0 =>
         /\ ~Has(res.trace, "zeros_like")
         /\ Len(res.bwd) = 1
         /\ Mask[2] => (res.bwd[1].dgamma /\ res.dgamma.fill = "kernel")
         /\ Mask[3] => (res.bwd[1].dbeta /\ res.dbeta.fill = "kernel")

\* C5: a forward call on a valid input invokes the forward kernel once when
\* M > 0 and never when M <= 0, where it returns without error an output (and
\* statistics) of no elements; a backward call on a valid input invokes the
\* backward kernel at most once, and exactly once when M > 0.
C5_KernelInvocations ==
  /\ (Forward /\ ValidArgs) =>
       /\ res.status = "ok"
       /\ Len(res.fwd) = (IF Checked.M > 0 THEN 1 ELSE 0)
       /\ Checked.M <= 0 =>
            /\ numel(res.out) = 0
            /\ fn = "_layer_norm" => (numel(res.mean) = 0 /\ numel(res.rstd) = 0)
  /\ (Backward /\ ValidArgs) =>
       /\ Len(res.bwd) <= 1
       /\ Checked.M > 0 => Len(res.bwd) = 1

\* C6: a failed shape check raises InvalidShape before any allocation (the
\* contiguous copy of the input included) and before any kernel or batch-norm
\* invocation, and nothing is returned.
C6_RaiseBeforeAllocation ==
  (fn # "idle" /\ ~ValidArgs) =>
    /\ res.status = "InvalidShape"
    /\ \A i \in 1..Len(res.trace) : res.trace[i] \notin AllocEvents
    /\ res.fwd = <<>> /\ res.bwd = <<>> /\ res.bn = <<>>
    /\ \A t \in Returned : ~t.defined

\* C7: on the same valid arguments math_native_layer_norm and _layer_norm
\* have the same outcome, and on success outputs and statistics of the same
\* shape and values.
C7_PathsAgree ==
  fn = "_layer_norm" =>
    LET m == math_native_layer_norm(args.input, args.normalized_shape,
                                    args.weight_opt, args.bias_opt, args.eps)
    IN /\ m.status = res.status
       /\ res.status = "ok" =>
            /\ m.out.shape = res.out.shape
            /\ numel(res.out) > 0 => m.out.val = res.out.val
            /\ m.mean.shape = res.mean.shape /\ m.rstd.shape = res.rstd.shape
            /\ numel(res.mean) > 0 => (m.mean.val = res.mean.val /\ m.rstd.val = res.rstd.val)

\* C8: with the gradient mask (false, false, false) layer_norm_backward never
\* invokes the backward kernel.
C8_KernelOnlyWhenRequested ==
  (Backward /\ ~Mask[1] /\ ~Mask[2] /\ ~Mask[3]) => res.bwd = <<>>

\* C9: every invocation of the forward and of the backward kernel is made
\* with M > 0 and N > 0.
C9_KernelPrecondition ==
  /\ \A i \in 1..Len(res.fwd) : res.fwd[i].M > 0 /\ res.fwd[i].N > 0
  /\ \A i \in 1..Len(res.bwd) : res.bwd[i].M > 0 /\ res.bwd[i].N > 0

\* The value batch normalization yields for the representative element.
Normalized == (args.input.val - Avg(args.input.val)) * InvStd(args.input.val, args.eps)

\* C10: math_native_layer_norm calls batch normalization once, on {1, M, N},
\* without weight, bias or running statistics, in training mode with momentum
\* 0 and the given eps; the affine transform follows the reshape of its output
\* to the input shape and yields bias + out * scale, out * scale, out + bias
\* or out according to which of scale and bias are present.
C10_FallbackAffine ==
  (Fallback /\ res.status = "ok") =>
    LET w == args.weight_opt
        b == args.bias_opt
        op == IF w.defined /\ b.defined THEN <<"addcmul">>
              ELSE IF w.defined THEN <<"mul">>
              ELSE IF b.defined THEN <<"add">> ELSE <<>>
        k == CHOOSE i \in 1..Len(res.trace) : res.trace[i] = "native_batch_norm"
    IN /\ res.bn = << [shape |-> <<1, Checked.M, Checked.N>>, weight |-> FALSE,
                       bias |-> FALSE, running_mean |-> FALSE,
                       running_var |-> FALSE, training |-> TRUE, momentum |-> 0,
                       eps |-> args.eps] >>
       /\ SubSeq(res.trace, k, Len(res.trace)) =
            <<"native_batch_norm", "view">> \o op \o <<"view", "view">>
       /\ res.out.shape = args.input.shape
       /\ res.out.val = (IF w.defined /\ b.defined THEN b.val + Normalized * w.val
                         ELSE IF w.defined THEN Normalized * w.val
                         ELSE IF b.defined THEN Normalized + b.val
                         ELSE Normalized)

\* The fallback has returned with both scale and bias present.
C10_Witness ==
  /\ Fallback
  /\ res.status = "ok"
  /\ args.weight_opt.defined /\ args.bias_opt.defined
  /\ numel(res.out) > 0

\* ------------------------------------------------- what does hold nearby
\* The parameter of every requested parameter gradient is present.
RequestedParamsPresent ==
  /\ Mask[2] => args.weight_opt.defined
  /\ Mask[3] => args.bias_opt.defined

\* Mask fidelity, the degenerate-batch policy and the kernel invocation count
\* hold for the calls in which no gradient of an absent parameter is requested.
BackwardWithParams ==
  RequestedParamsPresent =>
    (C1_MaskFidelity /\ C4_DegenerateBackward /\ C5_KernelInvocations)

\* A valid backward call that requests the gradient of an absent parameter
\* raises, returns nothing and never reaches the kernel.
BackwardAbsentParam ==
  (Backward /\ ValidArgs /\ ~RequestedParamsPresent) =>
    /\ res.status = "UndefinedTensor"
    /\ res.bwd = <<>>
    /\ \A t \in Returned : ~t.defined

\* The statistics of _layer_norm have the broadcast shape exactly when M > 0;
\* with M = 0 they keep the flat shape {0}.
StatShapeByM ==
  (fn = "_layer_norm" /\ ValidArgs) =>
    /\ Checked.M > 0 => C2_StatShape
    /\ Checked.M = 0 => (res.mean.shape = <<0>> /\ res.rstd.shape = <<0>>)

\* layer_norm_backward and math_native_layer_norm check the shapes first;
\* the forward entry points may have copied a non-contiguous input before.
RaiseOrder ==
  (fn # "idle" /\ ~ValidArgs) =>
    /\ res.status = "InvalidShape"
    /\ res.fwd = <<>> /\ res.bwd = <<>> /\ res.bn = <<>>
    /\ \A t \in Returned : ~t.defined
    /\ res.trace = (IF Forward /\ ~is_contiguous(args.input)
                    THEN <<"contiguous_copy", "raise">> ELSE <<"raise">>)

\* The two forward paths agree whenever the fallback can view the input as
\* {1, M, N}: M > 0 and no two dimensions of a non-contiguous input to merge.
PathsAgreeWhenViewable ==
  LET v == view_infer(args.input, <<1, Checked.M, -1>>)
  IN (ValidArgs /\ ~v.err) => C7_PathsAgree

\* The backward kernel is invoked exactly when M > 0 and the buffers could be
\* allocated, whatever the mask; every kernel invocation has M > 0.
KernelByM ==
  /\ (Backward /\ res.status = "ok") =>
       Len(res.bwd) = (IF Checked.M > 0 THEN 1 ELSE 0)
  /\ \A i \in 1..Len(res.fwd) : res.fwd[i].M > 0 /\ res.fwd[i].N >= 0
  /\ \A i \in 1..Len(res.bwd) : res.bwd[i].M > 0 /\ res.bwd[i].N >= 0

====
